---- MODULE Spec2Model ----
(***************************************************************************)
(* Order placement of the inventory dashboard (services/order-service.ts): *)
(* createOrder validates an order, inserts the header row, inserts the     *)
(* line items in one batch, then reconciles product stock (per line item)  *)
(* and the customer's statistics, each by a remote procedure with a        *)
(* client-side read-modify-write fallback.  Every `await` of a remote call *)
(* is one step of the model; a remote call ends in one of three ways: it   *)
(* succeeds, it returns an error object, or the client throws.             *)
(***************************************************************************)
EXTENDS Integers, Sequences, FiniteSets, TLC

\* ---------------------------------------------------------------- bounds
MaxItems      == 2   \* longest item list submitted
MaxQty        == 1   \* largest quantity of a line item
MaxSubtotal   == 2   \* largest subtotal supplied with a line item
InitStock     == 1   \* stock of product k at start is k * InitStock
InitOrders    == 2   \* total_orders of every customer at start
InitSpent     == 5   \* total_spent of every customer at start
UnitPrice     == 1   \* price supplied with every line item
MaxRows       == 2   \* most rows in an imported worksheet
MaxEvents     == 2   \* most auth-state changes delivered to the listener
MaxHeaders    == 2   \* a failed call is retried while orders has fewer rows

Procs     == {1, 2}               \* callers of createOrder
Sequential == {1}                 \* the caller of the single flow of control
Products  == {1, 2}               \* products.id of the rows of products
Customers == {1}                  \* customers.id of the rows of customers
NoCustomer == 0                   \* a falsy customer_id ("" / undefined)
NoOrder   == 0                    \* orderId absent from the result

\* how one remote call ends: { error: null } / { error } / a rejected promise;
\* a call that does not end "ok" leaves the tables as they were
Outcomes == {"ok", "error", "throw"}

VARIABLES
  orders,        \* table orders: sequence of rows, the row's id is its index
  order_items,   \* table order_items: sequence of rows
  stock,         \* table products: id -> stock
  customers,     \* table customers: id -> [total_orders, total_spent]
  pc,            \* per caller: the await it is suspended at
  order,         \* per caller: the OrderFormState argument
  total,         \* per caller: const total (line 21)
  orderData,     \* per caller: id of the inserted header row (orderData.id)
  idx,           \* per caller: position of `item` in the for loop (line 67)
  productData,   \* per caller: stock read by the fallback (line 79)
  customerData,  \* per caller: row read by the fallback (line 122)
  result,        \* per caller: the OrderCreationResult returned
  last,          \* per caller: the remote operation the call issued last
  ops,           \* per caller: the kinds of remote operation the call issued
  snap,          \* per caller: the four tables as they were when it called
  \* handleImportFromExcel
  catalog,       \* table products as the import sees it: rows [sku, rev]
  jsonData,      \* the rows of the first worksheet (line 385)
  cur,           \* position of `item` in the for loop (line 390)
  existingProduct, \* id returned by the lookup (line 412), 0 for null
  successes,     \* let successes (line 387)
  failures,      \* let failures (line 388)
  ipc,           \* the await the import is suspended at
  rowOps,        \* per file row: the remote operations issued for it
  \* AuthProvider
  session,       \* useState session (line 11)
  staffCompanyAccess, \* useState staffCompanyAccess (line 13)
  isLoading,     \* isLoading of useAuthFunctions (line 16)
  profile,       \* profile of useAuthFunctions (line 18)
  isAdmin,       \* isAdmin of useAuthFunctions (line 20)
  isStaff,       \* isStaff of useAuthFunctions (line 22)
  ready,         \* getSession() has resolved (line 114)
  staffQueries,  \* fetchCompanyAccess calls suspended at line 45
  accessQueries, \* fetchCompanyAccess calls suspended at line 68
  profileFetches, \* fetchProfile calls not yet completed
  events         \* auth-state changes delivered so far

orderVars == <<orders, order_items, stock, customers, pc, order, total,
               orderData, idx, productData, customerData, result, last, ops,
               snap>>

importVars == <<catalog, jsonData, cur, existingProduct, successes, failures,
                ipc, rowOps>>

authVars == <<session, staffCompanyAccess, isLoading, profile, isAdmin,
              isStaff, ready, staffQueries, accessQueries, profileFetches,
              events>>

vars == <<orderVars, importVars, authVars>>

db == <<orders, order_items, stock, customers>>

\* ------------------------------------------------------------ inputs
ItemRecs == [product_id : Products, quantity : 1..MaxQty,
             price : {UnitPrice}, subtotal : 1..MaxSubtotal]

ItemLists == UNION {[1..n -> ItemRecs] : n \in 0..MaxItems}

OrderForms == [customer_id : Customers \cup {NoCustomer}, items : ItemLists]

\* the orders submitted concurrently: a customer and one line item, its
\* subtotal quantity x price as the order form computes it
ConcForms ==
  {o \in OrderForms :
     /\ o.customer_id # NoCustomer
     /\ Len(o.items) = 1
     /\ o.items[1].subtotal = o.items[1].quantity * o.items[1].price}

NoForm == [customer_id |-> NoCustomer, items |-> <<>>]
NoResult == [success |-> FALSE, error |-> "none", orderId |-> NoOrder]
NoRow == [total_orders |-> 0, total_spent |-> 0]

\* ------------------------------------------------------------ helpers
\* order.items.reduce((sum, item) => sum + item.subtotal, 0)
RECURSIVE Reduce(_, _, _)
Reduce(items, i, sum) ==
  IF i > Len(items) THEN sum
  ELSE Reduce(items, i + 1, sum + items[i].subtotal)

\* the total recomputed from quantity and price instead of the subtotals
RECURSIVE ReduceRecomputed(_, _, _)
ReduceRecomputed(items, i, sum) ==
  IF i > Len(items) THEN sum
  ELSE ReduceRecomputed(items, i + 1, sum + items[i].quantity * items[i].price)

ComputeTotal_Recomputed(items) == ReduceRecomputed(items, 1, 0)

ComputeTotal(items) == Reduce(items, 1, 0)

\* Math.max replaced by its second argument
Max0_NoFloor(x) == x

\* Math.max(0, x)
Max0(x) == IF x > 0 THEN x ELSE 0

\* NewStock without the clamp at zero
NewStock_NoClamp(old, qty) == old - qty

\* NewStock computed from the default instead of the stock read
NewStock_IgnoresRead(old, qty) == Max0(0 - qty)

\* Math.max(0, (productData.stock || 0) - item.quantity)
NewStock(old, qty) == Max0(old - qty)

\* the catch block of createOrder: { success: false, error: err.message }
Failure(msg) == [success |-> FALSE, error |-> msg, orderId |-> NoOrder]

\* { success: true, orderId: orderData.id }
Success(id) == [success |-> TRUE, error |-> "none", orderId |-> id]

\* one remote operation: its kind, the row it names, how it ended
Op(kind, id, out) == [op |-> kind, id |-> id, out |-> out]
NoOp == Op("none", 0, "ok")

\* ItemRows with the subtotal recomputed from quantity and price
ItemRows_Recomputed(id, items) ==
  [i \in 1..Len(items) |->
     [order_id |-> id, product_id |-> items[i].product_id,
      quantity |-> items[i].quantity, price |-> items[i].price,
      subtotal |-> items[i].quantity * items[i].price]]

\* the rows of order_items built by order.items.map (lines 36-43)
ItemRows(id, items) ==
  [i \in 1..Len(items) |->
     [order_id |-> id, product_id |-> items[i].product_id,
      quantity |-> items[i].quantity, price |-> items[i].price,
      subtotal |-> items[i].subtotal]]

\* an insert that returns the row already there instead of adding a row
InsertRow_Upsert(rows, row) ==
  IF \E i \in 1..Len(rows) : rows[i] = row THEN rows ELSE Append(rows, row)

\* .insert(row) on a table with a generated id: always one more row
InsertRow(rows, row) == Append(rows, row)

\* remote procedure decrement(id, x): subtracts x from the product's stock
Decrement(s, id, x) == [s EXCEPT ![id] = @ - x]

\* remote procedure add_amount(id, amount, base): adds amount to total_spent
AddAmount(c, id, amount) == [c EXCEPT ![id].total_spent = @ + amount]

\* Validation without the check of the item list
Validation_NoItemsCheck(o) ==
  IF o.customer_id = NoCustomer THEN "Please select a customer" ELSE "none"

\* lines 13-19: the message of the validation error thrown, "none" if none
Validation(o) ==
  IF o.customer_id = NoCustomer THEN "Please select a customer"
  ELSE IF Len(o.items) = 0 THEN "Please add at least one item to the order"
  ELSE "none"

\* AfterInsertOrder without the check of orderError
AfterInsertOrder_NoThrow(out) == "insertItems"

\* line 34: if (orderError) throw orderError; a rejected await throws as well
AfterInsertOrder(out) == IF out = "ok" THEN "insertItems" ELSE "done"

\* AfterInsertItems without the check of itemsError
AfterInsertItems_NoThrow(out) == "stockRpc"

\* line 49: if (itemsError) throw itemsError
AfterInsertItems(out) == IF out = "ok" THEN "stockRpc" ELSE "done"

\* AfterStockRpc with the try/catch around the whole loop instead of per item:
\* a rejected await ends createOrder in its catch block
AfterStockRpc_Escalate(out) ==
  IF out = "error" THEN "stockRead" ELSE IF out = "throw" THEN "done" ELSE "next"

\* lines 75-78 and 103-105: an rpcError starts the fallback, a rejected
\* await is caught per item and the loop goes on ("next")
AfterStockRpc(out) == IF out = "error" THEN "stockRead" ELSE "next"

\* AfterStockRead without the continue: the write follows a failed read
AfterStockRead_NoContinue(out) == "stockWrite"

\* lines 85-88: if (fetchError) continue
AfterStockRead(out) == IF out = "ok" THEN "stockWrite" ELSE "next"

\* AfterCustRpc with the fallback run whenever the await returns
AfterCustRpc_AlwaysFallback(out) == IF out = "throw" THEN "return" ELSE "custRead"

\* lines 118-121 and 147-149: an rpcError starts the fallback, a rejected
\* await is caught and updateCustomerStats returns ("return")
AfterCustRpc(out) == IF out = "error" THEN "custRead" ELSE "return"

\* lines 128-130: if (fetchError) log, else write
AfterCustRead(out) == IF out = "ok" THEN "custWrite" ELSE "return"

\* NewStats built from the defaults instead of the row read
NewStats_FromDefaults(old, amount) ==
  [total_orders |-> 0 + 1, total_spent |-> 0 + amount]

\* NewStats with total_spent overwritten by the amount of this order
NewStats_Replace(old, amount) ==
  [total_orders |-> old.total_orders + 1, total_spent |-> amount]

\* the row written by the customer fallback (lines 131-139)
NewStats(old, amount) ==
  [total_orders |-> old.total_orders + 1,
   total_spent |-> old.total_spent + amount]

\* the call of caller p issues remote operation o
Issue(p, o) ==
  /\ last' = [last EXCEPT ![p] = o]
  /\ ops' = [ops EXCEPT ![p] = @ \cup {o.op}]
  /\ UNCHANGED <<snap, importVars, authVars>>

\* ------------------------------------------------------------ initial state
OrderInit ==
  /\ orders = <<>>
  /\ order_items = <<>>
  /\ stock = [k \in Products |-> k * InitStock]
  /\ customers = [c \in Customers |->
                    [total_orders |-> InitOrders, total_spent |-> InitSpent]]
  /\ pc = [p \in Procs |-> "idle"]
  /\ order = [p \in Procs |-> NoForm]
  /\ total = [p \in Procs |-> 0]
  /\ orderData = [p \in Procs |-> NoOrder]
  /\ idx = [p \in Procs |-> 0]
  /\ productData = [p \in Procs |-> 0]
  /\ customerData = [p \in Procs |-> NoRow]
  /\ result = [p \in Procs |-> NoResult]
  /\ last = [p \in Procs |-> NoOp]
  /\ ops = [p \in Procs |-> {}]
  /\ snap = [p \in Procs |-> <<>>]

\* no file has been chosen for import
ImportIdle ==
  /\ catalog = <<>>
  /\ jsonData = <<>>
  /\ cur = 0
  /\ existingProduct = 0
  /\ successes = 0
  /\ failures = 0
  /\ ipc = "idle"
  /\ rowOps = <<>>

\* AuthProvider after its first render: the useState defaults (lines 11-13),
\* nothing requested yet; l is the isLoading useAuthFunctions starts with
AuthStart(l) ==
  /\ session = "null"
  /\ staffCompanyAccess = "null"
  /\ isLoading = l
  /\ profile = "null"
  /\ isAdmin = FALSE
  /\ isStaff = FALSE
  /\ ready = FALSE
  /\ staffQueries = 0
  /\ accessQueries = 0
  /\ profileFetches = 0
  /\ events = 0

Init == OrderInit /\ ImportIdle /\ AuthStart(TRUE)

\* ------------------------------------------------------------ createOrder
\* createOrder returns r
Return(p, r) ==
  /\ result' = [result EXCEPT ![p] = r]
  /\ pc' = [pc EXCEPT ![p] = "done"]

\* the call with fresh locals, the two validations and the total, up to the
\* first await
Validate(p, o) ==
  /\ order' = [order EXCEPT ![p] = o]
  /\ last' = [last EXCEPT ![p] = NoOp]
  /\ ops' = [ops EXCEPT ![p] = {}]
  /\ snap' = [snap EXCEPT ![p] = db]
  /\ IF Validation(o) # "none"
     THEN /\ Return(p, Failure(Validation(o)))
          /\ UNCHANGED total
     ELSE /\ total' = [total EXCEPT ![p] = ComputeTotal(o.items)]
          /\ pc' = [pc EXCEPT ![p] = "insertOrder"]
          /\ UNCHANGED result
  /\ orderData' = [orderData EXCEPT ![p] = NoOrder]
  /\ idx' = [idx EXCEPT ![p] = 0]
  /\ productData' = [productData EXCEPT ![p] = 0]
  /\ customerData' = [customerData EXCEPT ![p] = NoRow]
  /\ UNCHANGED <<db, importVars, authVars>>

\* a caller submits an order while no other submission is in progress
Begin(p) ==
  /\ pc[p] = "idle"
  /\ \A q \in Procs \ {p} : pc[q] \in {"idle", "done"}
  /\ \E o \in OrderForms : Validate(p, o)

\* a caller submits an order whatever the other callers are doing: nothing
\* in createOrder or in the backend client serialises two calls
BeginConc(p) ==
  /\ pc[p] = "idle"
  /\ \E o \in ConcForms : Validate(p, o)

\* the caller submits the same order again after a failed result; the call
\* starts from the top, nothing of the failed call is carried over
Retry(p) ==
  /\ pc[p] = "done"
  /\ result[p].success = FALSE
  /\ Len(orders) < MaxHeaders
  /\ Validate(p, order[p])

\* await supabase.from('orders').insert({...}).select().single()
InsertOrder(p) ==
  /\ pc[p] = "insertOrder"
  /\ \E out \in Outcomes :
       /\ Issue(p, Op("insert orders", 0, out))
       /\ IF out = "ok"
          THEN /\ orders' = InsertRow(orders,
                     [customer_id |-> order[p].customer_id, total |-> total[p]])
               /\ orderData' = [orderData EXCEPT ![p] = Len(orders')]
          ELSE UNCHANGED <<orders, orderData>>
       /\ IF AfterInsertOrder(out) = "done"
          THEN Return(p, Failure("remote error"))
          ELSE /\ pc' = [pc EXCEPT ![p] = "insertItems"]
               /\ UNCHANGED result
  /\ UNCHANGED <<order_items, stock, customers, order, total, idx,
                 productData, customerData>>

\* await supabase.from('order_items').insert(orderItems)
InsertItems(p) ==
  /\ pc[p] = "insertItems"
  /\ \E out \in Outcomes :
       /\ Issue(p, Op("insert order_items", orderData[p], out))
       /\ IF out = "ok"
          THEN order_items' = order_items \o ItemRows(orderData[p], order[p].items)
          ELSE UNCHANGED order_items
       /\ IF AfterInsertItems(out) = "done"
          THEN /\ Return(p, Failure("remote error"))
               /\ UNCHANGED idx
          ELSE /\ idx' = [idx EXCEPT ![p] = 1]
               /\ pc' = [pc EXCEPT ![p] = "stockRpc"]
               /\ UNCHANGED result
  /\ UNCHANGED <<orders, stock, customers, order, total, orderData,
                 productData, customerData>>

\* ------------------------------------------------------------ updateProductStocks
\* the line item the for loop is at
Item(p) == order[p].items[idx[p]]

\* NextItem with the loop left after its first iteration
NextItem_Break(p) ==
  /\ pc' = [pc EXCEPT ![p] = "custRpc"]
  /\ UNCHANGED idx

\* the end of one loop iteration: the next item, or on to updateCustomerStats
NextItem(p) ==
  IF idx[p] < Len(order[p].items)
  THEN /\ idx' = [idx EXCEPT ![p] = @ + 1]
       /\ pc' = [pc EXCEPT ![p] = "stockRpc"]
  ELSE /\ pc' = [pc EXCEPT ![p] = "custRpc"]
       /\ UNCHANGED idx

\* await supabase.rpc('decrement', { x: item.quantity, id: item.product_id })
StockRpc(p) ==
  /\ pc[p] = "stockRpc"
  /\ \E out \in Outcomes :
       /\ Issue(p, Op("rpc decrement", Item(p).product_id, out))
       /\ IF out = "ok"
          THEN stock' = Decrement(stock, Item(p).product_id, Item(p).quantity)
          ELSE UNCHANGED stock
       /\ IF AfterStockRpc(out) = "stockRead"
          THEN /\ pc' = [pc EXCEPT ![p] = "stockRead"]
               /\ UNCHANGED <<idx, result>>
          ELSE IF AfterStockRpc(out) = "next"
          THEN /\ NextItem(p)
               /\ UNCHANGED result
          ELSE /\ Return(p, Failure("remote error"))
               /\ UNCHANGED idx
  /\ UNCHANGED <<orders, order_items, customers, order, total,
                 orderData, productData, customerData>>

\* await supabase.from('products').select('stock').eq('id', ...).single()
StockRead(p) ==
  /\ pc[p] = "stockRead"
  /\ \E out \in Outcomes :
       /\ Issue(p, Op("select products", Item(p).product_id, out))
       /\ IF out = "ok"
          THEN productData' = [productData EXCEPT ![p] = stock[Item(p).product_id]]
          ELSE UNCHANGED productData
       /\ IF AfterStockRead(out) = "stockWrite"
          THEN /\ pc' = [pc EXCEPT ![p] = "stockWrite"]
               /\ UNCHANGED idx
          ELSE NextItem(p)
  /\ UNCHANGED <<db, order, total, orderData, customerData, result>>

\* await supabase.from('products').update({ stock: newStock, ... }).eq('id', ...)
StockWrite(p) ==
  /\ pc[p] = "stockWrite"
  /\ \E out \in Outcomes :
       /\ Issue(p, Op("update products", Item(p).product_id, out))
       /\ IF out = "ok"
          THEN stock' = [stock EXCEPT ![Item(p).product_id] =
                           NewStock(productData[p], Item(p).quantity)]
          ELSE UNCHANGED stock
       /\ NextItem(p)
  /\ UNCHANGED <<orders, order_items, customers, order, total,
                 orderData, productData, customerData, result>>

\* ------------------------------------------------------------ updateCustomerStats
\* await supabase.rpc('add_amount', { base: 0, amount: total, id: customerId })
CustRpc(p) ==
  /\ pc[p] = "custRpc"
  /\ \E out \in Outcomes :
       /\ Issue(p, Op("rpc add_amount", order[p].customer_id, out))
       /\ IF out = "ok"
          THEN customers' = AddAmount(customers, order[p].customer_id, total[p])
          ELSE UNCHANGED customers
       /\ IF AfterCustRpc(out) = "custRead"
          THEN /\ pc' = [pc EXCEPT ![p] = "custRead"]
               /\ UNCHANGED result
          ELSE Return(p, Success(orderData[p]))
  /\ UNCHANGED <<orders, order_items, stock, order, total, orderData,
                 idx, productData, customerData>>

\* await supabase.from('customers').select('total_orders, total_spent')...single()
CustRead(p) ==
  /\ pc[p] = "custRead"
  /\ \E out \in Outcomes :
       /\ Issue(p, Op("select customers", order[p].customer_id, out))
       /\ IF out = "ok"
          THEN customerData' = [customerData EXCEPT ![p] =
                                  customers[order[p].customer_id]]
          ELSE UNCHANGED customerData
       /\ IF AfterCustRead(out) = "custWrite"
          THEN /\ pc' = [pc EXCEPT ![p] = "custWrite"]
               /\ UNCHANGED result
          ELSE Return(p, Success(orderData[p]))
  /\ UNCHANGED <<db, order, total, orderData, idx, productData>>

\* await supabase.from('customers').update({ total_orders, total_spent }).eq(...)
CustWrite(p) ==
  /\ pc[p] = "custWrite"
  /\ \E out \in Outcomes :
       /\ Issue(p, Op("update customers", order[p].customer_id, out))
       /\ IF out = "ok"
          THEN customers' = [customers EXCEPT ![order[p].customer_id] =
                               NewStats(customerData[p], total[p])]
          ELSE UNCHANGED customers
       /\ Return(p, Success(orderData[p]))
  /\ UNCHANGED <<orders, order_items, stock, order, total, orderData,
                 idx, productData, customerData>>

\* ------------------------------------------------------------ specification
Next ==
  \E p \in Sequential :
    \/ Begin(p)
    \/ InsertOrder(p)
    \/ InsertItems(p)
    \/ StockRpc(p)
    \/ StockRead(p)
    \/ StockWrite(p)
    \/ CustRpc(p)
    \/ CustRead(p)
    \/ CustWrite(p)

Spec == Init /\ [][Next]_vars

\* one caller, who retries failed submissions
RetryNext ==
  \E p \in Sequential :
    \/ Begin(p)
    \/ Retry(p)
    \/ InsertOrder(p)
    \/ InsertItems(p)
    \/ StockRpc(p)
    \/ StockRead(p)
    \/ StockWrite(p)
    \/ CustRpc(p)
    \/ CustRead(p)
    \/ CustWrite(p)

RetrySpec == Init /\ [][RetryNext]_vars

\* two callers whose calls interleave at every await
ConcNext ==
  \E p \in Procs :
    \/ BeginConc(p)
    \/ InsertOrder(p)
    \/ InsertItems(p)
    \/ StockRpc(p)
    \/ StockRead(p)
    \/ StockWrite(p)
    \/ CustRpc(p)
    \/ CustRead(p)
    \/ CustWrite(p)

ConcSpec == Init /\ [][ConcNext]_vars

\* every await of a call in progress eventually settles
FairSpec == Spec /\ \A p \in Sequential :
  WF_vars(InsertOrder(p) \/ InsertItems(p) \/ StockRpc(p) \/ StockRead(p)
          \/ StockWrite(p) \/ CustRpc(p) \/ CustRead(p) \/ CustWrite(p))

\* ------------------------------------------------------------ import
\* the SKUs that occur in worksheets and in the products table
Skus == {"A", "B"}

\* ExcelRow: a worksheet has its columns headed name or Name, sku or SKU;
\* "" is an empty or absent cell
ExcelRows ==
  {r \in [name : {"", "n"}, Name : {"", "n"},
          sku : {""} \cup Skus, SKU : {""} \cup Skus] :
     /\ r.name = "" \/ r.Name = ""
     /\ r.sku = "" \/ r.SKU = ""}

\* XLSX.utils.sheet_to_json(worksheet)
Sheets == UNION {[1..n -> ExcelRows] : n \in 0..MaxRows}

\* the products table before the import: no two rows with the same SKU
Catalogs ==
  {t \in UNION {[1..n -> [sku : Skus, rev : {0}]] : n \in 0..Cardinality(Skus)} :
     \A i, j \in 1..Len(t) : t[i].sku = t[j].sku => i = j}

\* a || b on strings
Or(a, b) == IF a # "" THEN a ELSE b

\* const product = { name: item.name || item.Name || '', sku: ... }
ProductOf(item) ==
  [name |-> Or(Or(item.name, item.Name), ""),
   sku |-> Or(Or(item.sku, item.SKU), "")]

\* !product.name || !product.sku
Missing(product) == product.name = "" \/ product.sku = ""

\* .select('id').eq('sku', sku).maybeSingle(): the id of the one matching row,
\* null (0) when no row matches, and null with an error when several do
MaybeSingle(table, sku) ==
  LET ids == {i \in 1..Len(table) : table[i].sku = sku}
  IN IF Cardinality(ids) = 1 THEN CHOOSE i \in ids : TRUE ELSE 0

\* const { data: existingProduct } = await ...: only data is taken from the
\* response, and data is null when the lookup ends with an error
Existing(out, table, sku) == IF out = "ok" THEN MaybeSingle(table, sku) ELSE 0

\* the first row from k on that has both fields, Len + 1 when there is none
FirstValid(k) ==
  LET valid == {j \in k..Len(jsonData) : ~Missing(ProductOf(jsonData[j]))}
  IN IF valid = {} THEN Len(jsonData) + 1
     ELSE CHOOSE j \in valid : \A i \in valid : j <= i

\* the for loop from row k on with s successes and f failures so far, up to
\* its next await: a row with a missing field throws before any await and
\* the catch counts it (lines 408-410, 434-437)
Loop(k, s, f) ==
  /\ cur' = FirstValid(k)
  /\ successes' = s
  /\ failures' = f + (FirstValid(k) - k)
  /\ ipc' = IF FirstValid(k) > Len(jsonData) THEN "done" ELSE "select"

\* the remote operation o is issued for the current row
Mark(o) == rowOps' = [rowOps EXCEPT ![cur] = @ \cup {o}]

\* a worksheet has been chosen for import into some products table
ImportInit ==
  /\ OrderInit
  /\ AuthStart(TRUE)
  /\ catalog \in Catalogs
  /\ jsonData \in Sheets
  /\ cur = 0
  /\ existingProduct = 0
  /\ successes = 0
  /\ failures = 0
  /\ ipc = "idle"
  /\ rowOps = [k \in 1..Len(jsonData) |-> {}]

\* reader.onload: the worksheet is parsed and the loop runs to its first await
HandleImportFromExcel ==
  /\ ipc = "idle"
  /\ Loop(1, 0, 0)
  /\ UNCHANGED <<catalog, jsonData, existingProduct, rowOps>>
  /\ UNCHANGED <<orderVars, authVars>>

\* await products.select('id').eq('sku', product.sku).maybeSingle()
SelectProduct ==
  /\ ipc = "select"
  /\ \E out \in Outcomes :
       IF out = "throw"
       THEN /\ Loop(cur + 1, successes, failures + 1)
            /\ existingProduct' = 0
       ELSE /\ existingProduct' =
                 Existing(out, catalog, ProductOf(jsonData[cur]).sku)
            /\ ipc' = IF existingProduct' # 0 THEN "update" ELSE "insert"
            /\ UNCHANGED <<cur, successes, failures>>
  /\ Mark("select")
  /\ UNCHANGED <<catalog, jsonData>>
  /\ UNCHANGED <<orderVars, authVars>>

\* await products.update(product).eq('id', existingProduct.id)
UpdateProduct ==
  /\ ipc = "update"
  /\ \E out \in Outcomes :
       IF out = "ok"
       THEN /\ catalog' = [catalog EXCEPT ![existingProduct].rev = @ + 1]
            /\ Loop(cur + 1, successes + 1, failures)
       ELSE /\ UNCHANGED catalog
            /\ Loop(cur + 1, successes, failures + 1)
  /\ Mark("update")
  /\ existingProduct' = 0
  /\ UNCHANGED jsonData
  /\ UNCHANGED <<orderVars, authVars>>

\* await products.insert(product)
InsertProduct ==
  /\ ipc = "insert"
  /\ \E out \in Outcomes :
       IF out = "ok"
       THEN /\ catalog' = Append(catalog,
                 [sku |-> ProductOf(jsonData[cur]).sku, rev |-> 0])
            /\ Loop(cur + 1, successes + 1, failures)
       ELSE /\ UNCHANGED catalog
            /\ Loop(cur + 1, successes, failures + 1)
  /\ Mark("insert")
  /\ existingProduct' = 0
  /\ UNCHANGED jsonData
  /\ UNCHANGED <<orderVars, authVars>>

ImportNext ==
  \/ HandleImportFromExcel
  \/ SelectProduct
  \/ UpdateProduct
  \/ InsertProduct

ImportSpec == ImportInit /\ [][ImportNext]_vars

ImportTypeOK ==
  /\ jsonData \in Sheets
  /\ cur \in 0..(Len(jsonData) + 1)
  /\ existingProduct \in 0..Len(catalog)
  /\ successes \in 0..Len(jsonData)
  /\ failures \in 0..Len(jsonData)
  /\ ipc \in {"idle", "select", "update", "insert", "done"}
  /\ ipc \in {"select", "update", "insert"} => cur \in 1..Len(jsonData)
  /\ rowOps \in [1..Len(jsonData) -> SUBSET {"select", "update", "insert"}]

\* ------------------------------------------------------------ AuthProvider
\* a session: null, a user with an email, a user without one
Sessions == {"null", "user", "noEmail"}

\* staffCompanyAccess: null, [] or the transformed rows
Access == {"null", "empty", "rows"}

\* how the staff lookup ends: { error }, no row, a row, a rejected promise
StaffAnswers == {"error", "none", "found", "throw"}

\* how the company_access query ends: { error }, rows, no rows, a rejected
\* promise
AccessAnswers == {"error", "rows", "empty", "throw"}

\* if (session?.user) { fetchProfile(...); if (email) fetchCompanyAccess(...) }
\* up to the first await of each: fetchCompanyAccess has set isLoading
SignedIn(s) ==
  /\ profileFetches' = profileFetches + 1
  /\ IF s = "user"
     THEN /\ staffQueries' = staffQueries + 1
          /\ isLoading' = TRUE
     ELSE UNCHANGED <<staffQueries, isLoading>>
  /\ UNCHANGED <<staffCompanyAccess, profile, isAdmin, isStaff, accessQueries>>

\* the else branch of the auth listener (lines 139-143)
SignedOut ==
  /\ profile' = "null"
  /\ isAdmin' = FALSE
  /\ isStaff' = FALSE
  /\ staffCompanyAccess' = "null"
  /\ isLoading' = FALSE
  /\ UNCHANGED <<profileFetches, staffQueries, accessQueries>>

\* the exits of fetchCompanyAccess that store a: every one of them sets
\* isLoading to false (lines 54, 61, 82 and the finally of line 108)
Exit(a) ==
  /\ staffCompanyAccess' = a
  /\ isLoading' = FALSE

\* what the company_access answer stores (lines 79-106)
Stored(answer) ==
  IF answer \in {"rows", "empty"} THEN answer ELSE "null"

\* the provider is mounted; useAuthFunctions starts with either isLoading
AuthInit ==
  /\ OrderInit
  /\ ImportIdle
  /\ \E l \in BOOLEAN : AuthStart(l)

\* supabase.auth.getSession() resolves with session s
GetSession(s) ==
  /\ ~ready
  /\ ready' = TRUE
  /\ session' = s
  /\ IF s # "null"
     THEN SignedIn(s)
     ELSE /\ isLoading' = FALSE
          /\ UNCHANGED <<staffCompanyAccess, profile, isAdmin, isStaff,
                         staffQueries, accessQueries, profileFetches>>
  /\ UNCHANGED events
  /\ UNCHANGED <<orderVars, importVars>>

\* the listener of onAuthStateChange is called with session s
AuthStateChange(s) ==
  /\ events < MaxEvents
  /\ events' = events + 1
  /\ session' = s
  /\ IF s # "null" THEN SignedIn(s) ELSE SignedOut
  /\ UNCHANGED ready
  /\ UNCHANGED <<orderVars, importVars>>

\* a fetchCompanyAccess resumes after the staff lookup (lines 45-63)
StaffQuery(answer) ==
  /\ staffQueries > 0
  /\ staffQueries' = staffQueries - 1
  /\ IF answer = "found"
     THEN /\ accessQueries' = accessQueries + 1
          /\ UNCHANGED <<staffCompanyAccess, isLoading>>
     ELSE /\ Exit("null")
          /\ UNCHANGED accessQueries
  /\ UNCHANGED <<session, profile, isAdmin, isStaff, ready, profileFetches,
                 events>>
  /\ UNCHANGED <<orderVars, importVars>>

\* a fetchCompanyAccess resumes after the company_access query (lines 68-109)
AccessQuery(answer) ==
  /\ accessQueries > 0
  /\ accessQueries' = accessQueries - 1
  /\ Exit(Stored(answer))
  /\ UNCHANGED <<session, profile, isAdmin, isStaff, ready, staffQueries,
                 profileFetches, events>>
  /\ UNCHANGED <<orderVars, importVars>>

\* a fetchProfile completes: it can reach the four setters useAuthFunctions
\* keeps (profile, isAdmin, isStaff, isLoading) and nothing of AuthProvider
FetchProfile ==
  /\ profileFetches > 0
  /\ profileFetches' = profileFetches - 1
  /\ profile' \in {"null", "loaded"}
  /\ isAdmin' \in BOOLEAN
  /\ isStaff' \in BOOLEAN
  /\ isLoading' \in {isLoading, FALSE}
  /\ UNCHANGED <<session, staffCompanyAccess, ready, staffQueries,
                 accessQueries, events>>
  /\ UNCHANGED <<orderVars, importVars>>

AuthNext ==
  \/ \E s \in Sessions : GetSession(s)
  \/ \E s \in Sessions : AuthStateChange(s)
  \/ \E a \in StaffAnswers : StaffQuery(a)
  \/ \E a \in AccessAnswers : AccessQuery(a)
  \/ FetchProfile

AuthSpec == AuthInit /\ [][AuthNext]_vars

AuthTypeOK ==
  /\ session \in Sessions
  /\ staffCompanyAccess \in Access
  /\ isLoading \in BOOLEAN
  /\ profile \in {"null", "loaded"}
  /\ isAdmin \in BOOLEAN
  /\ isStaff \in BOOLEAN
  /\ ready \in BOOLEAN
  /\ staffQueries \in 0..(MaxEvents + 1)
  /\ accessQueries \in 0..(MaxEvents + 1)
  /\ profileFetches \in 0..(MaxEvents + 1)
  /\ events \in 0..MaxEvents

PcValues == {"idle", "insertOrder", "insertItems", "stockRpc", "stockRead",
             "stockWrite", "custRpc", "custRead", "custWrite", "done"}

TypeOK ==
  /\ pc \in [Procs -> PcValues]
  /\ \A p \in Procs : order[p] \in OrderForms
  /\ \A p \in Procs : idx[p] \in 0..MaxItems

\* ------------------------------------------------------------ properties
Valid(o) == o.customer_id # NoCustomer /\ Len(o.items) > 0

Called(p) == pc[p] # "idle"

\* the tables as they were when caller p called
OrdersAtCall(p) == snap[p][1]
ItemsAtCall(p) == snap[p][2]
StockAtCall(p) == snap[p][3]
CustomersAtCall(p) == snap[p][4]

ReconcileOps == {"rpc decrement", "select products", "update products",
                 "rpc add_amount", "select customers", "update customers"}

\* C1: a call whose order has no customer reference or no items returns
\* success = false and has issued no remote operation at all; the four
\* tables are as they were.
C1_InvalidOrderNoRemoteOps ==
  \A p \in Procs :
    (Called(p) /\ ~Valid(order[p])) =>
       /\ pc[p] = "done"
       /\ result[p].success = FALSE
       /\ ops[p] = {}
       /\ last[p] = NoOp
       /\ db = snap[p]

C1_Witness ==
  \E p \in Procs :
    /\ pc[p] = "done"
    /\ order[p].customer_id # NoCustomer
    /\ Len(order[p].items) = 0
    /\ result[p].success = FALSE

\* C2: when the insert of the order header fails the call is over: it
\* returns success = false, the header insert is the only remote operation
\* it issued, and orders, order_items, products and customers are unchanged.
C2_HeaderFailureAborts ==
  \A p \in Procs :
    (last[p].op = "insert orders" /\ last[p].out # "ok") =>
       /\ pc[p] = "done"
       /\ result[p].success = FALSE
       /\ ops[p] = {"insert orders"}
       /\ db = snap[p]

C2_Witness ==
  \E p \in Procs :
    /\ pc[p] = "done"
    /\ last[p] = Op("insert orders", 0, "error")
    /\ Valid(order[p])

\* C3: when the header insert succeeded and the batched insert of the items
\* fails, the call returns success = false, the header row is still in
\* orders as it was inserted, and no reconciliation operation was issued:
\* order_items, products and customers are unchanged.
C3_ItemsFailureLeavesHeader ==
  \A p \in Procs :
    (last[p].op = "insert order_items" /\ last[p].out # "ok") =>
       /\ pc[p] = "done"
       /\ result[p].success = FALSE
       /\ ops[p] = {"insert orders", "insert order_items"}
       /\ orders = Append(OrdersAtCall(p),
                     [customer_id |-> order[p].customer_id, total |-> total[p]])
       /\ orderData[p] = Len(orders)
       /\ order_items = ItemsAtCall(p)
       /\ stock = StockAtCall(p)
       /\ customers = CustomersAtCall(p)

C3_Witness ==
  \E p \in Procs :
    /\ pc[p] = "done"
    /\ last[p] = Op("insert order_items", orderData[p], "throw")
    /\ Len(orders) = 1
    /\ Len(order_items) = 0

\* C4: once the header and the items are inserted the call ends with
\* success = true and the id of the new order, whatever the reconciliation
\* calls did; a result of failure comes only from validation, the header
\* insert or the item insert.
ItemsInserted(p) ==
  /\ "insert order_items" \in ops[p]
  /\ Len(order_items) = Len(ItemsAtCall(p)) + Len(order[p].items)

C4_ReconciliationNeverFails ==
  /\ [](\A p \in Procs :
          /\ (ItemsInserted(p) /\ pc[p] = "done") =>
                result[p] = Success(orderData[p])
          /\ (pc[p] = "done" /\ result[p].success = FALSE) =>
                ops[p] \cap ReconcileOps = {})
  /\ \A p \in Sequential :
       ItemsInserted(p) ~> (pc[p] = "done" /\ result[p] = Success(orderData[p]))

C4_Witness ==
  \E p \in Procs :
    /\ pc[p] = "done"
    /\ result[p].success = TRUE
    /\ result[p].orderId = Len(orders)
    /\ "select products" \in ops[p]
    /\ "update products" \notin ops[p]
    /\ last[p] = Op("update customers", order[p].customer_id, "throw")
    /\ stock = StockAtCall(p)
    /\ customers = CustomersAtCall(p)

\* max(0, old - q), written out
Clamped(old, q) == IF old > q THEN old - q ELSE 0

\* caller p issues a remote operation in this step
Issues(p) == last'[p] # last[p] /\ last'[p].op # "none"

\* C5: the fallback read and write on products are issued only for the line
\* item whose decrement call has just returned an error, a successful write
\* sets that product's stock to max(0, old stock - quantity) and changes no
\* other product's stock, and after a successful decrement call no read or
\* write of products follows for that item.
C5_FallbackOnlyForFailedItem ==
  [][\A p \in Procs :
       /\ (Issues(p) /\ last'[p].op = "select products") =>
            /\ last[p] = Op("rpc decrement", Item(p).product_id, "error")
            /\ last'[p].id = Item(p).product_id
            /\ stock' = stock
       /\ (Issues(p) /\ last'[p].op = "update products") =>
            /\ last[p] = Op("select products", Item(p).product_id, "ok")
            /\ last'[p].id = Item(p).product_id
            /\ stock' = IF last'[p].out = "ok"
                        THEN [stock EXCEPT ![Item(p).product_id] =
                                Clamped(stock[Item(p).product_id], Item(p).quantity)]
                        ELSE stock
       /\ (Issues(p) /\ last[p].op = "rpc decrement" /\ last[p].out = "ok") =>
            last'[p].op \in {"rpc decrement", "rpc add_amount"}
    ]_vars

\* item 1 was decremented by the procedure, item 2 names the same product
\* and went through the fallback, which clamped the stock at zero
C5_Witness ==
  \E p \in Procs :
    /\ pc[p] = "custRpc"
    /\ Len(order[p].items) = 2
    /\ order[p].items[1].product_id = order[p].items[2].product_id
    /\ last[p] = Op("update products", order[p].items[2].product_id, "ok")
    /\ productData[p] = StockAtCall(p)[order[p].items[1].product_id]
                          - order[p].items[1].quantity
    /\ productData[p] < order[p].items[2].quantity
    /\ stock[order[p].items[2].product_id] = 0
    /\ \A k \in Products \ {order[p].items[2].product_id} :
         stock[k] = StockAtCall(p)[k]

\* C6: when the fallback read of an item fails, the step changes no stock
\* and reports nothing, the loop moves to the next item (or, after the last
\* item, on to the customer statistics), and the next remote operation of
\* the call is the decrement call of the next item, never a write.
C6_FailedReadSkipsOnlyThatItem ==
  [][\A p \in Procs :
       /\ (Issues(p) /\ last'[p].op = "select products" /\ last'[p].out # "ok") =>
            /\ stock' = stock
            /\ result'[p] = result[p]
            /\ IF idx[p] < Len(order[p].items)
               THEN pc'[p] = "stockRpc" /\ idx'[p] = idx[p] + 1
               ELSE pc'[p] = "custRpc"
       /\ (Issues(p) /\ last[p].op = "select products" /\ last[p].out # "ok") =>
            \/ /\ last'[p].op = "rpc decrement"
               /\ last'[p].id = Item(p).product_id
            \/ /\ last'[p].op = "rpc add_amount"
               /\ idx[p] = Len(order[p].items)
    ]_vars

\* the read of item 1 failed, nothing was written, item 2 was decremented
C6_Witness ==
  \E p \in Procs :
    /\ pc[p] = "custRpc"
    /\ Len(order[p].items) = 2
    /\ order[p].items[1].product_id # order[p].items[2].product_id
    /\ last[p] = Op("rpc decrement", order[p].items[2].product_id, "ok")
    /\ "select products" \in ops[p]
    /\ "update products" \notin ops[p]
    /\ stock[order[p].items[1].product_id] =
         StockAtCall(p)[order[p].items[1].product_id]
    /\ stock[order[p].items[2].product_id] =
         StockAtCall(p)[order[p].items[2].product_id] - order[p].items[2].quantity

\* C7: when the add_amount call succeeds the call is over: no read of and no
\* write to customers has been or will be issued by it.
C7_NoFallbackAfterAddAmount ==
  \A p \in Procs :
    (last[p].op = "rpc add_amount" /\ last[p].out = "ok") =>
       /\ pc[p] = "done"
       /\ "select customers" \notin ops[p]
       /\ "update customers" \notin ops[p]

C7_Witness ==
  \E p \in Procs :
    /\ pc[p] = "done"
    /\ last[p] = Op("rpc add_amount", order[p].customer_id, "ok")
    /\ customers # CustomersAtCall(p)

\* C8: when add_amount fails and the fallback read and write succeed, the
\* customer's row has total_orders one more and total_spent the order total
\* more than before the call; when the fallback read fails no write is
\* issued and the row is as before the call.
C8_CustomerFallback ==
  \A p \in Procs :
    /\ last[p] = Op("update customers", order[p].customer_id, "ok") =>
         customers[order[p].customer_id] =
           [total_orders |->
              CustomersAtCall(p)[order[p].customer_id].total_orders + 1,
            total_spent |->
              CustomersAtCall(p)[order[p].customer_id].total_spent
                + orders[orderData[p]].total]
    /\ (last[p].op = "select customers" /\ last[p].out # "ok") =>
         /\ pc[p] = "done"
         /\ "update customers" \notin ops[p]
         /\ customers = CustomersAtCall(p)

\* total_orders 2, total_spent 5 and an order of total 2 give 3 and 7
C8_Witness ==
  \E p \in Procs :
    /\ pc[p] = "done"
    /\ last[p] = Op("update customers", order[p].customer_id, "ok")
    /\ orders[orderData[p]].total = 2
    /\ customers[order[p].customer_id] =
         [total_orders |-> InitOrders + 1, total_spent |-> InitSpent + 2]

\* C9: after a successful call whose customer-statistics update succeeded,
\* by the add_amount procedure or by the fallback write, the customer's
\* total_orders is one more and total_spent the order total more than before.
C9_BothPathsSameRow ==
  \A p \in Procs :
    (/\ pc[p] = "done"
     /\ result[p].success
     /\ last[p].op \in {"rpc add_amount", "update customers"}
     /\ last[p].out = "ok") =>
       customers[order[p].customer_id] =
         [total_orders |->
            CustomersAtCall(p)[order[p].customer_id].total_orders + 1,
          total_spent |->
            CustomersAtCall(p)[order[p].customer_id].total_spent + total[p]]

\* the sum of the subtotals as supplied
RECURSIVE SumSubtotals(_)
SumSubtotals(items) ==
  IF items = <<>> THEN 0 ELSE Head(items).subtotal + SumSubtotals(Tail(items))

\* C10: for a valid order the total of the inserted header row and the
\* amount added to the customer's total_spent, on either path, are the sum
\* of the subtotals supplied with the items.
C10_TotalIsSumOfSubtotals ==
  \A p \in Procs :
    (Called(p) /\ Valid(order[p])) =>
       /\ total[p] = SumSubtotals(order[p].items)
       /\ orderData[p] # NoOrder =>
            orders[orderData[p]].total = SumSubtotals(order[p].items)
       /\ (last[p].op \in {"rpc add_amount", "update customers"}
             /\ last[p].out = "ok") =>
            customers[order[p].customer_id].total_spent =
              CustomersAtCall(p)[order[p].customer_id].total_spent
                + SumSubtotals(order[p].items)

C10_Witness ==
  \E p \in Procs :
    /\ pc[p] = "done"
    /\ result[p].success
    /\ Len(order[p].items) = 2
    /\ order[p].items[1].subtotal # order[p].items[2].subtotal
    /\ \E i \in 1..2 : order[p].items[i].subtotal #
                         order[p].items[i].quantity * order[p].items[i].price
    /\ orders[orderData[p]].total = 3
    /\ last[p] = Op("rpc add_amount", order[p].customer_id, "ok")
    /\ customers[order[p].customer_id].total_spent = InitSpent + 3

\* the rows of order_items that reference order i
RowsOf(i) == SelectSeq(order_items, LAMBDA r : r.order_id = i)

\* C11 as claimed: in every reachable state each order row's total is the
\* sum of the subtotals of the order_items rows that reference it.
C11_TotalMatchesItems ==
  \A i \in 1..Len(orders) : SumSubtotals(RowsOf(i)) = orders[i].total

\* C11 as amended: in every reachable state each order row either has no
\* order_items rows (its item insert has not succeeded, or not yet) or its
\* total is the sum of the subtotals of the rows that reference it.
C11_TotalMatchesItemsOnceInserted ==
  \A i \in 1..Len(orders) :
    \/ RowsOf(i) = <<>>
    \/ SumSubtotals(RowsOf(i)) = orders[i].total

C11_Witness ==
  \E p \in Procs :
    /\ pc[p] = "done"
    /\ result[p].success
    /\ Len(RowsOf(orderData[p])) = 2
    /\ RowsOf(orderData[p])[1].subtotal # RowsOf(orderData[p])[2].subtotal
    /\ \E j \in 1..2 : RowsOf(orderData[p])[j].subtotal #
         RowsOf(orderData[p])[j].quantity * RowsOf(orderData[p])[j].price
    /\ orders[orderData[p]].total = 3

\* C12 as claimed: starting from non-negative stock, no product's stock is
\* ever negative.
C12_StockNeverNegative ==
  \A k \in Products : stock[k] >= 0

\* C12 as amended: every stock value written by the fallback is clamped at
\* zero (it is 0 when the quantity is at least the stock read, the
\* difference otherwise), and a product's stock becomes negative only by a
\* successful call of the decrement procedure, which does not clamp.
C12_OnlyFallbackClamps ==
  [][/\ \A p \in Procs :
          (Issues(p) /\ last'[p].op = "update products" /\ last'[p].out = "ok") =>
             /\ stock'[Item(p).product_id] >= 0
             /\ stock'[Item(p).product_id] =
                  IF Item(p).quantity >= productData[p] THEN 0
                  ELSE productData[p] - Item(p).quantity
     /\ (\E k \in Products : stock'[k] < 0 /\ stock'[k] # stock[k]) =>
          (\E p \in Procs :
             /\ pc'[p] # pc[p] \/ idx'[p] # idx[p]
             /\ last'[p].op = "rpc decrement" /\ last'[p].out = "ok")
    ]_vars

\* the procedure took the stock to zero, the fallback of the next item on
\* the same product read 0, less than the quantity, and wrote 0
C12_Witness ==
  \E p \in Procs :
    /\ pc[p] = "custRpc"
    /\ Len(order[p].items) = 2
    /\ last[p] = Op("update products", order[p].items[2].product_id, "ok")
    /\ productData[p] < order[p].items[2].quantity
    /\ stock[order[p].items[2].product_id] = 0

\* C13: in a sequence of calls no step lowers a customer's total_orders or
\* total_spent, and when a call has returned success = false the customers
\* table is as it was when the call was made.
C13_StatsOnlyGrowOnSuccess ==
  /\ [][\A c \in Customers :
          /\ customers'[c].total_orders >= customers[c].total_orders
          /\ customers'[c].total_spent >= customers[c].total_spent]_vars
  /\ [](\A p \in Procs :
          (pc[p] = "done" /\ result[p].success = FALSE) =>
             customers = CustomersAtCall(p))

C13_Witness ==
  \E p \in Procs :
    /\ pc[p] = "done"
    /\ result[p].success
    /\ Len(OrdersAtCall(p)) = 1
    /\ last[p] = Op("update customers", order[p].customer_id, "ok")
    /\ customers[order[p].customer_id].total_orders = InitOrders + 1
    /\ customers[order[p].customer_id].total_spent = InitSpent + total[p]

\* C14: a retry of a submission whose header was inserted and whose items
\* were not inserts one more header: once the retry's header insert has
\* succeeded, orders holds the new row and, for every earlier attempt, an
\* equal row that no order_items row references.
C14_RetryDuplicatesHeader ==
  \A p \in Procs :
    (Called(p) /\ Len(OrdersAtCall(p)) >= 1 /\ orderData[p] # NoOrder) =>
       /\ Len(orders) = Len(OrdersAtCall(p)) + 1
       /\ orderData[p] = Len(orders)
       /\ \A i \in 1..Len(OrdersAtCall(p)) :
            /\ orders[i] = orders[orderData[p]]
            /\ RowsOf(i) = <<>>

\* two header rows for one logical order, the first without items
C14_Witness ==
  \E p \in Procs :
    /\ pc[p] = "done"
    /\ result[p].success
    /\ Len(orders) = 2
    /\ orders[1] = orders[2]
    /\ RowsOf(1) = <<>>
    /\ Len(RowsOf(2)) = Len(order[p].items)

StockOps == {"rpc decrement", "select products", "update products"}

\* the operation ends the fallback chain of its line item
EndsChain(o) ==
  /\ o.op \in StockOps
  /\ ~(o.op = "rpc decrement" /\ o.out = "error")
  /\ ~(o.op = "select products" /\ o.out = "ok")

\* C15: the remote operations of one call follow one another in a fixed
\* order: header insert, item insert, then for the line items in list order
\* the decrement call and, after its error, the read and then the write of
\* that item's product, each item's chain ended before the next item's
\* decrement call, and add_amount only after the chain of the last item.
C15_LinearOrder ==
  [][\A p \in Procs : Issues(p) =>
       /\ last'[p].op = "insert orders" => last[p] = NoOp
       /\ last'[p].op = "insert order_items" =>
            last[p] = Op("insert orders", 0, "ok")
       /\ last'[p].op = "rpc decrement" =>
            /\ last'[p].id = Item(p).product_id
            /\ \/ idx[p] = 1 /\ last[p] = Op("insert order_items", orderData[p], "ok")
               \/ /\ idx[p] > 1
                  /\ EndsChain(last[p])
                  /\ last[p].id = order[p].items[idx[p] - 1].product_id
       /\ last'[p].op = "select products" =>
            last[p] = Op("rpc decrement", last'[p].id, "error")
       /\ last'[p].op = "update products" =>
            last[p] = Op("select products", last'[p].id, "ok")
       /\ last'[p].op = "rpc add_amount" =>
            /\ idx[p] = Len(order[p].items)
            /\ EndsChain(last[p])
            /\ last[p].id = Item(p).product_id
       /\ last'[p].op = "select customers" =>
            last[p] = Op("rpc add_amount", order[p].customer_id, "error")
       /\ last'[p].op = "update customers" =>
            last[p] = Op("select customers", order[p].customer_id, "ok")
       /\ idx'[p] \in {idx[p], idx[p] + 1}
    ]_vars

\* a call that went through every kind of operation, two items in order
C15_Witness ==
  \E p \in Procs :
    /\ pc[p] = "done"
    /\ Len(order[p].items) = 2
    /\ idx[p] = 2
    /\ ops[p] = {"insert orders", "insert order_items"} \cup ReconcileOps
    /\ last[p] = Op("update customers", order[p].customer_id, "ok")

\* C17: when two concurrent calls have both just completed a successful
\* fallback write of the same product, its stock is max(0, read - quantity)
\* of one of them, computed from the stock that call read, whatever the
\* other call wrote in between; likewise the customer's row after two
\* successful fallback writes is the row one of the calls read plus its own
\* order: the other decrement or increment can be lost.
C17_LastWriterWins ==
  \A p \in Procs : \A q \in Procs \ {p} :
    /\ (/\ last[p].op = "update products" /\ last[p].out = "ok"
        /\ last[q].op = "update products" /\ last[q].out = "ok"
        /\ last[p].id = last[q].id) =>
          stock[last[p].id] \in
            {Clamped(productData[p], Item(p).quantity),
             Clamped(productData[q], Item(q).quantity)}
    /\ (/\ last[p] = Op("update customers", order[p].customer_id, "ok")
        /\ last[q] = Op("update customers", order[q].customer_id, "ok")
        /\ order[p].customer_id = order[q].customer_id) =>
          customers[order[p].customer_id] \in
            {[total_orders |-> customerData[p].total_orders + 1,
              total_spent |-> customerData[p].total_spent + total[p]],
             [total_orders |-> customerData[q].total_orders + 1,
              total_spent |-> customerData[q].total_spent + total[q]]}

\* both calls read the same stock, both writes succeeded, and the stock
\* shows one decrement, not two
C17_Witness ==
  \E k \in Products :
    /\ \A p \in Procs :
         /\ pc[p] = "custRpc"
         /\ last[p] = Op("update products", k, "ok")
         /\ productData[p] = k * InitStock
    /\ stock[k] = Clamped(k * InitStock, order[1].items[1].quantity)
    /\ stock[k] # Clamped(Clamped(k * InitStock, order[1].items[1].quantity),
                          order[2].items[1].quantity)

\* the same for the customer's row: both calls done, both writes succeeded
C17_CustomerLostUpdate ==
  /\ \A p \in Procs :
       /\ pc[p] = "done"
       /\ last[p] = Op("update customers", 1, "ok")
       /\ customerData[p] = [total_orders |-> InitOrders, total_spent |-> InitSpent]
  /\ customers[1].total_orders = InitOrders + 1

\* ------------------------------------------------------------ C16
\* the SKU of the row the import is at
CurSku == ProductOf(jsonData[cur]).sku

\* the rows the loop has finished with
Processed == {k \in 1..Len(jsonData) : ipc = "done" \/ (ipc # "idle" /\ k < cur)}

SkusOf(table) == {table[i].sku : i \in 1..Len(table)}

UniqueSkus(table) ==
  \A i, j \in 1..Len(table) : table[i].sku = table[j].sku => i = j

DistinctSkus(rows) ==
  \A i, j \in 1..Len(rows) :
    (/\ ~Missing(ProductOf(rows[i]))
     /\ ProductOf(rows[i]).sku = ProductOf(rows[j]).sku) => i = j

\* C16: the import reconciles by SKU: a product is inserted only for a row
\* whose SKU no product has, an update goes to the product with the row's
\* SKU, a row missing name or SKU causes no read or write, successes +
\* failures is the number of rows once the import is over, and a file with
\* distinct SKUs leaves a table with unique SKUs unique
C16_ImportReconcilesBySku ==
  /\ ipc = "insert" => CurSku \notin SkusOf(catalog)
  /\ ipc = "update" => catalog[existingProduct].sku = CurSku
  /\ \A k \in Processed : Missing(ProductOf(jsonData[k])) => rowOps[k] = {}
  /\ ipc = "done" => successes + failures = Len(jsonData)
  /\ DistinctSkus(jsonData) => UniqueSkus(catalog)

\* the parts of C16 that do not depend on the lookup's answer
C16_CountsAndSkippedRows ==
  /\ ipc = "update" => catalog[existingProduct].sku = CurSku
  /\ \A k \in Processed : Missing(ProductOf(jsonData[k])) => rowOps[k] = {}
  /\ ipc = "done" => successes + failures = Len(jsonData)

\* a second product with an existing SKU has been inserted from a file
\* whose SKUs are distinct
C16_DuplicateSku == DistinctSkus(jsonData) /\ ~UniqueSkus(catalog)

\* ------------------------------------------------------------ C18
\* no fetchProfile and no fetchCompanyAccess is in flight
NoFetchInFlight ==
  staffQueries = 0 /\ accessQueries = 0 /\ profileFetches = 0

\* C18: once the initial session is known, whenever the session is null and
\* no profile or company-access fetch is in flight, staffCompanyAccess is
\* null and isLoading is false
C18_SignedOutMeansNoAccess ==
  (ready /\ session = "null" /\ NoFetchInFlight)
    => (staffCompanyAccess = "null" /\ isLoading = FALSE)

\* the same for isLoading alone
C18_SignedOutNotLoading ==
  (ready /\ session = "null" /\ NoFetchInFlight) => isLoading = FALSE

\* a null session resets the four fields, and every exit of
\* fetchCompanyAccess leaves isLoading false
C18_ResetAndExits ==
  [][/\ (events' # events /\ session' = "null") =>
          (/\ profile' = "null"
           /\ isAdmin' = FALSE
           /\ isStaff' = FALSE
           /\ staffCompanyAccess' = "null"
           /\ isLoading' = FALSE)
     /\ (staffQueries' + accessQueries' < staffQueries + accessQueries) =>
          isLoading' = FALSE]_vars

\* signed out, nothing in flight, and the access of the earlier session is
\* still there
C18_StaleAccess ==
  /\ ready
  /\ session = "null"
  /\ NoFetchInFlight
  /\ staffCompanyAccess # "null"

====
